---- MODULE Spec2Model ----
(***************************************************************************)
(* A model of src/main.py: the Snapchat export processor.                  *)
(*                                                                         *)
(* process_json downloads every manifest entry, merges archives            *)
(* (process_zip_file, overlay_image, ffmpeg_overlay_video with its         *)
(* FixOverlayImage retry path), embeds metadata and renames the output;    *)
(* __main__ then runs FixRemaining over the leftover *_extracted folders.  *)
(*                                                                         *)
(* Strings are sequences of one-character strings, so that the string      *)
(* operations of the code (lower, endswith, replace, Path.stem, ...) are   *)
(* computed as Python computes them.  The file system is a function from   *)
(* the paths of the existing files to their content, plus the set of the   *)
(* existing directories.                                                   *)
(***************************************************************************)
EXTENDS Integers, Sequences, FiniteSets, TLC

(***************************************************************************)
(* Python string and pathlib operations                                    *)
(***************************************************************************)
UC == <<"A","B","C","D","E","F","G","H","I","J","K","L","M",
        "N","O","P","Q","R","S","T","U","V","W","X","Y","Z">>
LC == <<"a","b","c","d","e","f","g","h","i","j","k","l","m",
        "n","o","p","q","r","s","t","u","v","w","x","y","z">>

\* str.lower() on one character
LowerChar(c) ==
    IF \E k \in 1..26 : UC[k] = c
    THEN LC[CHOOSE k \in 1..26 : UC[k] = c]
    ELSE c

\* str.lower()
Lower(s) == [k \in 1..Len(s) |-> LowerChar(s[k])]

\* str.endswith(suf)
EndsWith(s, suf) ==
    /\ Len(s) >= Len(suf)
    /\ SubSeq(s, Len(s) - Len(suf) + 1, Len(s)) = suf

\* str.startswith(pre)
StartsWith(s, pre) ==
    /\ Len(s) >= Len(pre)
    /\ SubSeq(s, 1, Len(pre)) = pre

\* whether pat occurs in s at index k
OccursAt(s, k, pat) ==
    /\ k + Len(pat) - 1 <= Len(s)
    /\ SubSeq(s, k, k + Len(pat) - 1) = pat

RECURSIVE ReplaceFrom(_, _, _, _)
ReplaceFrom(s, k, old, new) ==
    IF k > Len(s) THEN <<>>
    ELSE IF OccursAt(s, k, old)
         THEN new \o ReplaceFrom(s, k + Len(old), old, new)
         ELSE <<s[k]>> \o ReplaceFrom(s, k + 1, old, new)

\* str.replace(old, new): every non-overlapping occurrence, left to right
Replace(s, old, new) == ReplaceFrom(s, 1, old, new)

\* index of the last occurrence of character c in s, 0 when there is none
LastIndexOf(s, c) ==
    IF \E k \in 1..Len(s) : s[k] = c
    THEN CHOOSE k \in 1..Len(s) : s[k] = c /\ \A j \in (k+1)..Len(s) : s[j] # c
    ELSE 0

\* Path(p).name
PathName(p) == SubSeq(p, LastIndexOf(p, "/") + 1, Len(p))

\* Path(p).parent, as a string ("" for a bare name)
PathParent(p) == SubSeq(p, 1, LastIndexOf(p, "/") - 1)

\* Path(p).suffix: from the last dot of the name, unless the dot leads or ends it
PathSuffix(p) ==
    LET name == PathName(p)
        d    == LastIndexOf(name, ".")
    IN  IF d > 1 /\ d < Len(name) THEN SubSeq(name, d, Len(name)) ELSE <<>>

\* Path(p).stem
PathStem(p) ==
    LET name == PathName(p)
    IN  SubSeq(name, 1, Len(name) - Len(PathSuffix(p)))

\* Path(dir) / name
Join(dir, name) == dir \o <<"/">> \o name

\* Path(p).with_name(name)
WithName(p, name) == SubSeq(p, 1, LastIndexOf(p, "/")) \o name

(***************************************************************************)
(* String literals of the program                                          *)
(***************************************************************************)
S_png        == <<".","p","n","g">>
S_fixed_png  == <<"_","f","i","x","e","d",".","p","n","g">>
S_jpg        == <<".","j","p","g">>
S_jpeg       == <<".","j","p","e","g">>
S_webp       == <<".","w","e","b","p">>
S_mp4        == <<".","m","p","4">>
S_zip        == <<".","z","i","p">>
S_extracted  == <<"_","e","x","t","r","a","c","t","e","d">>
S_merged     == <<"_","m","e","r","g","e","d">>
S_main_jpg   == <<"-","m","a","i","n",".","j","p","g">>
S_main_jpeg  == <<"-","m","a","i","n",".","j","p","e","g">>
S_main_png   == <<"-","m","a","i","n",".","p","n","g">>
S_main_webp  == <<"-","m","a","i","n",".","w","e","b","p">>
S_main_mp4   == <<"-","m","a","i","n",".","m","p","4">>
S_main_mov   == <<"-","m","a","i","n",".","m","o","v">>
S_main_mkv   == <<"-","m","a","i","n",".","m","k","v">>
S_main_webm  == <<"-","m","a","i","n",".","w","e","b","m">>
S_overlay_png == <<"-","o","v","e","r","l","a","y",".","p","n","g">>
S_uoverlay_png == <<"_","o","v","e","r","l","a","y",".","p","n","g">>
S_doverlay_png == <<".","o","v","e","r","l","a","y",".","p","n","g">>
S_colon      == <<":">>
S_hyphen     == <<"-">>
S_space      == <<" ">>
S_underscore == <<"_">>
S_UTC        == <<" ","U","T","C">>
S_empty      == <<>>

\* a selection that takes every payload for a video
NoImageExts == {}

ImageExts == {S_jpg, S_jpeg, S_png, S_webp}

\* the value None
None == <<"N","o","n","e","!">>

(***************************************************************************)
(* parse_latlon and deg_to_dms_rational                                    *)
(*                                                                         *)
(* A float that came from a decimal string is held as an integer number of *)
(* millionths, so that the arithmetic on it is exact.                      *)
(***************************************************************************)
Micro == 1000 * 1000

DigitChars == <<"0","1","2","3","4","5","6","7","8","9">>

IsDigit(c) == \E k \in 1..10 : DigitChars[k] = c

DigitVal(c) == (CHOOSE k \in 1..10 : DigitChars[k] = c) - 1

\* the index after the run of digits that starts at k (k itself when there is none)
DigitsEnd(s, k) ==
    IF k <= Len(s) /\ IsDigit(s[k])
    THEN 1 + CHOOSE e \in k..Len(s) :
                 /\ \A j \in k..e : IsDigit(s[j])
                 /\ (e = Len(s) \/ ~IsDigit(s[e + 1]))
    ELSE k

\* the index after the run of white space that starts at k
SpacesEnd(s, k) ==
    IF k <= Len(s) /\ s[k] = " "
    THEN 1 + CHOOSE e \in k..Len(s) :
                 /\ \A j \in k..e : s[j] = " "
                 /\ (e = Len(s) \/ s[e + 1] # " ")
    ELSE k

\* \d+\.\d+ with the integer digits in k1..e1-1 and the decimals in e1+1..e2-1:
\* the index after the match, 0 when there is none
FloatEnd(s, k1, e1, e2) ==
    IF e1 > k1 /\ e1 <= Len(s) /\ s[e1] = "." /\ e2 > e1 + 1 THEN e2 ELSE 0

FloatFrac(s, k1, e1) == FloatEnd(s, k1, e1, DigitsEnd(s, e1 + 1))

FloatInt(s, k1) == FloatFrac(s, k1, DigitsEnd(s, k1))

\* -?\d+\.\d+ at index k: the index after the match, 0 when there is none
FloatAt(s, k) == FloatInt(s, IF k <= Len(s) /\ s[k] = "-" THEN k + 1 ELSE k)

NoMatch == [ok |-> FALSE, g1 |-> <<0, 0>>, g2 |-> <<0, 0>>]

\* the second group starts at k2 and ends before e
PatternSecond(s, k, c, k2, e) ==
    IF e = 0 THEN NoMatch
    ELSE [ok |-> TRUE, g1 |-> <<k, c - 1>>, g2 |-> <<k2, e - 1>>]

PatternSpaces(s, k, c, k2) == PatternSecond(s, k, c, k2, FloatAt(s, k2))

\* the first group ends before c, where the comma has to be
PatternFirst(s, k, c) ==
    IF c = 0 \/ c > Len(s) THEN NoMatch
    ELSE IF s[c] # "," THEN NoMatch
    ELSE PatternSpaces(s, k, c, SpacesEnd(s, c + 1))

\* (-?\d+\.\d+),\s*(-?\d+\.\d+) at index k: the two groups, as index pairs
PatternAt(s, k) == PatternFirst(s, k, FloatAt(s, k))

RECURSIVE NatOf(_)
\* int() of a string of digits
NatOf(ds) ==
    IF ds = <<>> THEN 0
    ELSE 10 * NatOf(SubSeq(ds, 1, Len(ds) - 1)) + DigitVal(ds[Len(ds)])

\* integer digits and decimals, in millionths (digits after the sixth decimal
\* are beyond the unit)
FloatParts(whole, frac) ==
    NatOf(whole) * Micro + NatOf(SubSeq(frac \o <<"0","0","0","0","0","0">>, 1, 6))

FloatUnsigned(u, dot) ==
    FloatParts(SubSeq(u, 1, dot - 1), SubSeq(u, dot + 1, Len(u)))

FloatSigned(neg, u) ==
    IF neg THEN 0 - FloatUnsigned(u, CHOOSE k \in 1..Len(u) : u[k] = ".")
    ELSE FloatUnsigned(u, CHOOSE k \in 1..Len(u) : u[k] = ".")

\* float() of a string matched by -?\d+\.\d+
FloatOf(t) ==
    IF t[1] = "-" THEN FloatSigned(TRUE, SubSeq(t, 2, Len(t)))
    ELSE FloatSigned(FALSE, t)

ParseMatch(s, m) ==
    [ok  |-> TRUE,
     lat |-> FloatOf(SubSeq(s, m.g1[1], m.g1[2])),
     lon |-> FloatOf(SubSeq(s, m.g2[1], m.g2[2]))]

\* re.search takes the leftmost match
ParseFrom(s, starts) ==
    IF s = S_empty \/ starts = {}
    THEN [ok |-> FALSE, lat |-> 0, lon |-> 0]
    ELSE ParseMatch(s, PatternAt(s, CHOOSE k \in starts : \A j \in starts : k <= j))

\* lines 46-53
parse_latlon(location_str) ==
    ParseFrom(location_str,
              {k \in 1..Len(location_str) : PatternAt(location_str, k).ok})

Abs(v) == IF v < 0 THEN 0 - v ELSE v

\* a rounding that cuts the fraction off
Truncate(num, den) == num \div den

RoundTo(q, r, den) ==
    IF 2 * r < den THEN q
    ELSE IF 2 * r > den THEN q + 1
    ELSE IF q % 2 = 0 THEN q ELSE q + 1

\* round(num / den): to the nearest integer, a tie to the even one
Round(num, den) == RoundTo(num \div den, num % den, den)

\* minutes_f is m60 millionths.  Where it is a whole number in exact
\* arithmetic, the binary product can fall just below it (below), and int()
\* then takes the minute before and round() gives 60.00 seconds.
DmsFrom(deg, m60, below) ==
    IF m60 % Micro = 0 /\ m60 > 0 /\ below
    THEN << <<deg, 1>>, <<(m60 \div Micro) - 1, 1>>, <<6000, 100>> >>
    ELSE << <<deg, 1>>, <<m60 \div Micro, 1>>, <<Round((m60 % Micro) * 3, 500), 100>> >>

DmsOf(a, below) == DmsFrom(a \div Micro, (a % Micro) * 60, below)

\* lines 55-60, deg_float in millionths
deg_to_dms_rational(deg_float, below) == DmsOf(Abs(deg_float), below)

\* the "Location" values of the export: none, one with coordinates, one
\* whose numbers have no decimals
L_coordinates == <<"5","1",".","5","2",","," ","-","0",".","1","2">>
L_integers    == <<"5","1",",","0">>
Locations == {S_empty, L_coordinates, L_integers}

(***************************************************************************)
(* Bounds and inputs of the model                                          *)
(***************************************************************************)
\* longest manifest
MaxEntries == 2
\* longest manifest of the runs in which nothing but a download fails
WellFormedEntries == 3
\* compose attempts of one ffmpeg_overlay_video call the model follows
MaxAttempts == 4
\* calls of FixRemaining the model follows
MaxSweeps == 2

\* while x < AllowedAttemps
AllowedAttemps == 3

\* process_json's out_dir
OutDir == <<"o","u","t">>

\* an entry's "Date", as the export writes it
TS1 == <<"2","0","2","1","-","1","0","-","0","6"," ",
         "2","3",":","0","9",":","2","1"," ","U","T","C">>

\* the files wget.download can save: [path, k] with k the kind of content
\* ("zip": zipfile.is_zipfile holds; "badzip": a .zip name over other bytes)
DownloadFiles ==
    { [path |-> Join(OutDir, <<"a",".","z","i","p">>), k |-> "zip"],
      [path |-> Join(OutDir, <<"a",".","z","i","p">>), k |-> "badzip"],
      [path |-> Join(OutDir, <<"b",".","z","i","p">>), k |-> "zip"],
      [path |-> Join(OutDir, <<"a",".","j","p","g">>), k |-> "media"],
      [path |-> Join(OutDir, <<"b",".","m","p","4">>), k |-> "media"] }

M_main_jpg    == <<"m">> \o S_main_jpg
M_main_mp4    == <<"m">> \o S_main_mp4
M_overlay_png == <<"m">> \o S_overlay_png
M_overlay_PNG == <<"m","-","o","v","e","r","l","a","y",".","P","N","G">>

\* the member lists an archive can hold
ArchiveContents ==
    { {M_main_jpg, M_overlay_png},
      {M_main_mp4, M_overlay_png},
      {M_main_mp4, M_overlay_PNG},
      {M_main_jpg},
      {M_overlay_png} }

\* a file system: the files with their content, and the scratch directories
FileSystem(files, ds) == [files |-> files, dirs |-> ds]

NoFiles == [q \in {} |-> "member"]

FilesIn(dir, names) == [q \in {Join(dir, m) : m \in names} |-> "member"]

A_extracted == Join(OutDir, <<"a">> \o S_extracted)
B_extracted == Join(OutDir, <<"b">> \o S_extracted)

\* what the output directory holds when the run starts: nothing, companion
\* overlays beside the files to come, or a scratch directory an earlier,
\* interrupted run left behind
InitialFileSystems ==
    { FileSystem(NoFiles, {}),
      FileSystem(FilesIn(OutDir, {<<"a">> \o S_overlay_png, <<"b">> \o S_overlay_png}), {}),
      FileSystem(FilesIn(A_extracted, {M_main_jpg, M_overlay_png}), {A_extracted}),
      FileSystem(FilesIn(B_extracted, {M_main_mp4, M_overlay_png}), {B_extracted}) }

(***************************************************************************)
(* File system operations                                                  *)
(***************************************************************************)
\* open(path, "w") ... write
WriteFile(f, p, c) == [q \in DOMAIN f \cup {p} |-> IF q = p THEN c ELSE f[q]]

\* os.remove
RemoveFile(f, p) == [q \in DOMAIN f \ {p} |-> f[q]]

\* the files left by shutil.rmtree(d)
RmTree(f, d) == [q \in {r \in DOMAIN f : ~StartsWith(r, d \o <<"/">>)} |-> f[q]]

\* os.rename(src, dst), src existing
RenameFile(f, src, dst) ==
    [q \in (DOMAIN f \ {src}) \cup {dst} |-> IF q = dst THEN f[src] ELSE f[q]]

\* the immediate children of directory d (Path.iterdir)
IterDir(f, d) == {q \in DOMAIN f : PathParent(q) = d}

(***************************************************************************)
(* find_main_and_overlay                                                   *)
(***************************************************************************)
\* the first branch pair of the if/elif chain: name is the lowered file name
IsMainName(name) ==
    \/ EndsWith(name, S_main_jpg) \/ EndsWith(name, S_main_jpeg)
    \/ EndsWith(name, S_main_png) \/ EndsWith(name, S_main_webp)
    \/ EndsWith(name, S_main_mp4) \/ EndsWith(name, S_main_mov)
    \/ EndsWith(name, S_main_mkv) \/ EndsWith(name, S_main_webm)

\* the last branch of the chain
IsOverlayName(name) == ~IsMainName(name) /\ EndsWith(name, S_overlay_png)

\* the pairs (main, overlay) find_main_and_overlay can return for directory d:
\* the last match in iteration order wins, and the order is the file system's
find_main_and_overlay(f, d) ==
    LET mains    == {q \in IterDir(f, d) : IsMainName(Lower(PathName(q)))}
        overlays == {q \in IterDir(f, d) : IsOverlayName(Lower(PathName(q)))}
    IN  { <<m, o>> : m \in (IF mains = {} THEN {None} ELSE mains),
                     o \in (IF overlays = {} THEN {None} ELSE overlays) }

(***************************************************************************)
(* FixOverlayImage: the path the repaired overlay is saved to              *)
(***************************************************************************)
FixedOverlayPath(overlay_path) == Replace(overlay_path, S_png, S_fixed_png)

\* a retry that passes the overlay of the failed attempt again
RetryOverlaySame(current, repaired) == current

\* line 216: the overlay the next attempt uses
RetryOverlay(current, repaired) == repaired

(***************************************************************************)
(* process_json: the filename prefix and the final name                    *)
(***************************************************************************)
\* a normalization that leaves the zone suffix to the last replace
NiceTimeKeepsZone(timestamp) ==
    Replace(Replace(timestamp, S_colon, S_hyphen), S_space, S_underscore)

NiceTime(timestamp) ==
    Replace(Replace(Replace(timestamp, S_colon, S_hyphen), S_UTC, S_empty),
            S_space, S_underscore)

NewPath(out, nice) == WithName(out, nice \o S_underscore \o PathName(out))

\* process_zip_file's and FixRemaining's output paths
ExtractDir(out_dir, zip) == Join(out_dir, PathStem(zip) \o S_extracted)
BaseOut(out_dir, stem) == Join(out_dir, stem \o S_merged)

(***************************************************************************)
(* State                                                                   *)
(***************************************************************************)
VARIABLES
    pc,           \* where the program is
    n,            \* number of entries of the manifest
    i,            \* index of the entry process_json is at
    fs,           \* the files under out_dir, with their content
    dirs,         \* the scratch directories under out_dir
    saved_path,   \* process_json
    output_path,  \* process_json, FixRemaining
    nicetime,     \* process_json
    timestamp,    \* process_json, FixRemaining
    zip_path,     \* process_zip_file
    out_file,     \* process_zip_file: out_img or out_vid
    extract_dir,  \* process_zip_file; FixRemaining's subdir
    main,         \* process_zip_file, FixRemaining
    overlay,      \* process_zip_file, FixRemaining
    overlay_png,  \* ffmpeg_overlay_video
    out_vid,      \* ffmpeg_overlay_video
    x,            \* ffmpeg_overlay_video
    ret,          \* the caller ffmpeg_overlay_video returns to
    remaining,    \* FixRemaining
    noDelete,     \* FixRemaining
    sweep,        \* the calls of FixRemaining so far
    \* history, written and never read by the program
    fov,          \* the current ffmpeg_overlay_video call
    item,         \* the current item of process_json or FixRemaining
    outcome,      \* per processed entry: did the download throw, the final file
    clean,        \* no stage but a download has failed so far, every entry had url and date
    mergedDirs,   \* the scratch directories whose content has been merged
    rmLog,        \* the scratch directories removed so far
    crashedIn     \* the function an uncaught exception left

vars == <<pc, sweep, n, i, fs, dirs, saved_path, output_path, nicetime, timestamp,
          zip_path, out_file, extract_dir, main, overlay, overlay_png, out_vid, x,
          ret, remaining, noDelete, fov, item, outcome, clean, mergedDirs, rmLog,
          crashedIn>>

pjLocals  == <<saved_path, output_path, nicetime, timestamp>>
pzLocals  == <<zip_path, out_file, extract_dir, main, overlay>>
fovLocals == <<overlay_png, out_vid, x, ret>>
frLocals  == <<remaining, noDelete>>

NoFix == [done |-> FALSE, inp |-> None, out |-> None, before |-> "none"]

NoCall == [attempts |-> 0, repairs |-> 0, ok |-> FALSE, first |-> None,
           used |-> <<>>, fixed |-> <<>>, fix |-> NoFix]

NoItem == [kind |-> "none", extract |-> "none", missing |-> FALSE,
           composer |-> "none", compose |-> "none", embed |-> "none",
           steps |-> <<>>, renamed |-> FALSE, from |-> None, to |-> None,
           loc |-> None, lat |-> 0, lon |-> 0, gps |-> <<>>]

InitWith(longest) ==
    /\ pc = "pj_loop"
    /\ n \in 1..longest
    /\ i = 1
    /\ \E init \in InitialFileSystems : fs = init.files /\ dirs = init.dirs
    /\ saved_path = None /\ output_path = None /\ nicetime = None /\ timestamp = None
    /\ zip_path = None /\ out_file = None /\ extract_dir = None /\ main = None /\ overlay = None
    /\ overlay_png = None /\ out_vid = None /\ x = 0 /\ ret = "none"
    /\ remaining = {} /\ noDelete = FALSE /\ sweep = 0
    /\ fov = NoCall /\ item = NoItem /\ outcome = <<>> /\ clean = TRUE
    /\ mergedDirs = {} /\ rmLog = {} /\ crashedIn = "none"

Init == InitWith(MaxEntries)

\* an uncaught exception ends the program
Crash(where) == pc' = "crashed" /\ crashedIn' = where

\* the item is over: its outcome is recorded
EndItem(threw, final) ==
    /\ outcome' = Append(outcome, [threw |-> threw, final |-> final])
    /\ i' = i + 1

Step(name) == [item EXCEPT !.steps = Append(@, name)]

(***************************************************************************)
(* process_json                                                            *)
(***************************************************************************)
\* lines 285-294: the next entry; a non-dict entry or one without a URL is skipped
PJ_NextEntry ==
    /\ pc = "pj_loop"
    /\ \/ /\ i > n
          /\ pc' = "main_check"
          /\ UNCHANGED <<i, outcome, clean>>
       \/ /\ i <= n
          /\ EndItem(FALSE, None)
          /\ clean' = FALSE
          /\ pc' = "pj_loop"
       \/ /\ i <= n
          /\ pc' = "pj_download"
          /\ UNCHANGED <<i, outcome, clean>>
    /\ saved_path' = None /\ output_path' = None /\ nicetime' = None
    /\ timestamp' = None /\ zip_path' = None /\ out_file' = None
    /\ extract_dir' = None /\ main' = None /\ overlay' = None
    /\ overlay_png' = None /\ out_vid' = None /\ ret' = "none"
    /\ item' = NoItem /\ fov' = NoCall
    /\ UNCHANGED <<sweep, n, fs, dirs, x, remaining, noDelete, mergedDirs, rmLog, crashedIn>>

\* a download exception that leaves process_json
DownloadFailedUncaught ==
    /\ Crash("process_json")
    /\ UNCHANGED <<i, outcome>>

\* lines 300-302: the download threw: log and continue
DownloadFailed ==
    /\ EndItem(TRUE, None)
    /\ pc' = "pj_loop"
    /\ UNCHANGED crashedIn

\* lines 296-304
PJ_Download ==
    /\ pc = "pj_download"
    /\ \/ /\ DownloadFailed
          /\ UNCHANGED <<fs, saved_path, item>>
       \/ /\ \E f \in DownloadFiles :
                /\ f.path \notin DOMAIN fs
                /\ fs' = WriteFile(fs, f.path, f.k)
                /\ saved_path' = f.path
          /\ item' = Step("download")
          /\ pc' = "pj_process"
          /\ UNCHANGED <<i, outcome, crashedIn>>
    /\ UNCHANGED <<sweep, n, dirs, output_path, nicetime, timestamp, pzLocals, fovLocals,
                   frLocals, fov, clean, mergedDirs, rmLog>>

\* line 309
IsZip(path) == fs[path] = "zip" \/ EndsWith(Lower(path), S_zip)

\* the scratch directory d is removed at `site`
Removed(d, site) ==
    [dir |-> d, site |-> site, merged |-> d \in mergedDirs, noDelete |-> noDelete]

\* lines 230-233, called from line 312
PZ_Prepare ==
    /\ pc = "pj_process"
    /\ IsZip(saved_path)
    /\ zip_path' = saved_path
    /\ LET d == ExtractDir(OutDir, saved_path) IN
         /\ extract_dir' = d
         /\ IF d \in dirs
            THEN /\ fs' = RmTree(fs, d)
                 /\ rmLog' = rmLog \cup {Removed(d, "process_zip_file:231")}
                 /\ mergedDirs' = mergedDirs \ {d}
            ELSE UNCHANGED <<fs, rmLog, mergedDirs>>
         /\ dirs' = dirs \cup {d}
    /\ item' = [item EXCEPT !.kind = "zip"]
    /\ pc' = "pz_extract"
    /\ UNCHANGED <<sweep, n, i, pjLocals, out_file, main, overlay, fovLocals, frLocals,
                   fov, outcome, clean, crashedIn>>

\* line 235, extract_zip (lines 161-164)
PZ_Extract ==
    /\ pc = "pz_extract"
    /\ \/ /\ fs[zip_path] = "zip"
          /\ \E members \in ArchiveContents :
                fs' = [q \in DOMAIN fs \cup {Join(extract_dir, m) : m \in members} |->
                          IF q \in DOMAIN fs THEN fs[q] ELSE "member"]
                /\ item' = [Step("extract") EXCEPT !.extract = "ok"]
          /\ pc' = "pz_locate"
          /\ UNCHANGED clean
       \/ /\ fs[zip_path] # "zip"
          /\ item' = [item EXCEPT !.extract = "raised"]
          /\ pc' = "pj_except"
          /\ clean' = FALSE
          /\ UNCHANGED fs
    /\ UNCHANGED <<sweep, n, i, dirs, pjLocals, pzLocals, fovLocals, frLocals, fov,
                   outcome, mergedDirs, rmLog, crashedIn>>

\* a process_zip_file that keeps the archive
ArchiveKept(f, zip) == f

\* line 239: the files after os.remove(zip_path)
ArchiveRemoved(f, zip) == RemoveFile(f, zip)

\* lines 236-243
PZ_Locate ==
    /\ pc = "pz_locate"
    /\ \E pair \in find_main_and_overlay(fs, extract_dir) :
          /\ main' = pair[1]
          /\ overlay' = pair[2]
          /\ IF pair[1] = None \/ pair[2] = None
             THEN /\ output_path' = None
                  /\ item' = [Step("locate") EXCEPT !.missing = TRUE]
                  /\ clean' = FALSE
                  /\ pc' = "pj_timestamp"
             ELSE /\ item' = Step("locate")
                  /\ pc' = "pz_compose"
                  /\ UNCHANGED <<output_path, clean>>
    /\ fs' = ArchiveRemoved(fs, zip_path)
    /\ UNCHANGED <<sweep, n, i, dirs, saved_path, nicetime, timestamp, zip_path, out_file,
                   extract_dir, fovLocals, frLocals, fov, outcome, mergedDirs, rmLog,
                   crashedIn>>

\* lines 245-249: the main payload is an image
PZ_ComposeImage ==
    /\ pc = "pz_compose"
    /\ Lower(PathSuffix(main)) \in ImageExts
    /\ LET out_img == BaseOut(OutDir, PathStem(zip_path)) \o S_jpg IN
         \/ /\ fs' = WriteFile(fs, out_img, "merged")
            /\ out_file' = out_img
            /\ mergedDirs' = mergedDirs \cup {extract_dir}
            /\ item' = [Step("compose") EXCEPT !.composer = "image", !.compose = "ok"]
            /\ pc' = "pz_cleanup"
            /\ UNCHANGED clean
         \/ /\ item' = [item EXCEPT !.composer = "image", !.compose = "raised"]
            /\ pc' = "pj_except"
            /\ clean' = FALSE
            /\ UNCHANGED <<fs, out_file, mergedDirs>>
    /\ UNCHANGED <<sweep, n, i, dirs, pjLocals, zip_path, extract_dir, main, overlay,
                   fovLocals, frLocals, fov, outcome, rmLog, crashedIn>>

\* lines 252-255: the main payload is taken for a video
PZ_ComposeVideo ==
    /\ pc = "pz_compose"
    /\ Lower(PathSuffix(main)) \notin ImageExts
    /\ out_file' = BaseOut(OutDir, PathStem(zip_path)) \o S_mp4
    /\ out_vid' = out_file'
    /\ overlay_png' = overlay
    /\ x' = 0
    /\ ret' = "process_zip_file"
    /\ fov' = [NoCall EXCEPT !.first = overlay]
    /\ item' = [item EXCEPT !.composer = "video"]
    /\ pc' = "fov_loop"
    /\ UNCHANGED <<sweep, n, i, fs, dirs, pjLocals, zip_path, extract_dir, main, overlay,
                   frLocals, outcome, clean, mergedDirs, rmLog, crashedIn>>

\* lines 250-251 and 256-257: clean up the extracted files, return the output
PZ_Cleanup ==
    /\ pc = "pz_cleanup"
    /\ fs' = RmTree(fs, extract_dir)
    /\ dirs' = dirs \ {extract_dir}
    /\ rmLog' = rmLog \cup {Removed(extract_dir, "process_zip_file:250")}
    /\ mergedDirs' = mergedDirs \ {extract_dir}
    /\ output_path' = out_file
    /\ pc' = "pj_timestamp"
    /\ UNCHANGED <<sweep, n, i, saved_path, nicetime, timestamp, pzLocals, fovLocals,
                   frLocals, fov, item, outcome, clean, crashedIn>>

(***************************************************************************)
(* ffmpeg_overlay_video and FixOverlayImage                                *)
(***************************************************************************)
\* lines 196-212: one pass of the while loop; safe_run raises when ffmpeg fails,
\* and a failed ffmpeg may have begun to write out_vid
FOV_Attempt ==
    /\ pc = "fov_loop"
    /\ IF x < AllowedAttemps
       THEN \/ /\ fov.attempts < MaxAttempts
               /\ fs' = WriteFile(fs, out_vid, "merged")
               /\ fov' = [fov EXCEPT !.attempts = @ + 1, !.ok = TRUE,
                                     !.used = Append(@, overlay_png)]
               /\ pc' = "fov_done"
               /\ UNCHANGED clean
            \/ /\ fov.attempts < MaxAttempts
               /\ \E partial \in BOOLEAN :
                     fs' = IF partial THEN WriteFile(fs, out_vid, "partial") ELSE fs
               /\ fov' = [fov EXCEPT !.attempts = @ + 1,
                                     !.used = Append(@, overlay_png)]
               /\ pc' = "fov_fix"
               /\ clean' = FALSE
       ELSE /\ pc' = "fov_done"
            /\ UNCHANGED <<fs, fov, clean>>
    /\ UNCHANGED <<sweep, n, i, dirs, pjLocals, pzLocals, fovLocals, frLocals, item,
                   outcome, mergedDirs, rmLog, crashedIn>>

\* an exception leaves ffmpeg_overlay_video: process_json catches it at line 343,
\* FixRemaining does not
FOV_Raise ==
    /\ item' = [item EXCEPT !.compose = "raised"]
    /\ IF ret = "FixRemaining"
       THEN Crash("FixRemaining")
       ELSE pc' = "pj_except" /\ UNCHANGED crashedIn

\* lines 213-217 with FixOverlayImage (lines 219-225): Image.open raises on a
\* file it cannot decode, img.save on a directory that does not exist
FOV_Fix ==
    /\ pc = "fov_fix"
    /\ LET fixed_overlay_path == FixedOverlayPath(overlay_png) IN
         \/ /\ overlay_png \in DOMAIN fs
            /\ PathParent(fixed_overlay_path) \in dirs \cup {OutDir}
            /\ fs' = WriteFile(fs, fixed_overlay_path, "png")
            /\ overlay_png' = RetryOverlay(overlay_png, fixed_overlay_path)
            /\ fov' = [fov EXCEPT !.repairs = @ + 1,
                                  !.fixed = Append(@, fixed_overlay_path),
                                  !.fix = [done |-> TRUE,
                                           inp |-> overlay_png,
                                           out |-> fixed_overlay_path,
                                           before |-> fs[overlay_png]]]
            /\ pc' = "fov_loop"
            /\ UNCHANGED <<item, crashedIn>>
         \/ /\ FOV_Raise
            /\ UNCHANGED <<fs, overlay_png, fov>>
    /\ UNCHANGED <<sweep, n, i, dirs, pjLocals, pzLocals, out_vid, x, ret, frLocals,
                   outcome, clean, mergedDirs, rmLog>>

\* the loop is left: back in the caller (lines 256, 339, 426)
FOV_Return ==
    /\ pc = "fov_done"
    /\ pc' = CASE ret = "process_zip_file" -> "pz_cleanup"
               [] ret = "process_json"     -> "pj_plain_ret"
               [] OTHER                    -> "fr_composed"
    /\ item' = [Step("compose") EXCEPT !.compose = IF fov.ok THEN "ok" ELSE "failed"]
    /\ mergedDirs' = IF fov.ok /\ ret # "process_json"
                     THEN mergedDirs \cup {extract_dir}
                     ELSE mergedDirs
    /\ fov' = NoCall
    /\ UNCHANGED <<sweep, n, i, fs, dirs, pjLocals, pzLocals, fovLocals, frLocals,
                   outcome, clean, rmLog, crashedIn>>

(***************************************************************************)
(* process_json, continued                                                 *)
(***************************************************************************)
\* lines 319-328: the first companion overlay that exists
FoundOverlay(f, p) ==
    LET stem == PathStem(p)
        possible_overlay_names ==
            << WithName(p, stem \o S_overlay_png),
               WithName(p, stem \o S_uoverlay_png),
               WithName(p, stem \o S_doverlay_png) >>
        hits == {k \in 1..3 : possible_overlay_names[k] \in DOMAIN f}
    IN  IF hits = {} THEN None
        ELSE possible_overlay_names[CHOOSE k \in hits : \A j \in hits : k <= j]

\* lines 313-342: not an archive
PJ_Plain ==
    /\ pc = "pj_process"
    /\ ~IsZip(saved_path)
    /\ LET found_overlay == FoundOverlay(fs, saved_path) IN
         \/ /\ found_overlay = None
            /\ output_path' = saved_path
            /\ item' = [item EXCEPT !.kind = "plain"]
            /\ pc' = "pj_timestamp"
            /\ UNCHANGED <<overlay_png, out_vid, x, ret, fov, clean>>
         \/ /\ found_overlay # None
            /\ Lower(PathSuffix(saved_path)) \in ImageExts
            \* line 334: ffmpeg_overlay_image is defined nowhere: NameError
            /\ item' = [item EXCEPT !.kind = "plain", !.composer = "image",
                                    !.compose = "raised"]
            /\ pc' = "pj_except"
            /\ clean' = FALSE
            /\ UNCHANGED <<output_path, overlay_png, out_vid, x, ret, fov>>
         \/ /\ found_overlay # None
            /\ Lower(PathSuffix(saved_path)) \notin ImageExts
            /\ out_vid' = Join(OutDir, PathStem(saved_path) \o S_merged \o S_mp4)
            /\ overlay_png' = found_overlay
            /\ x' = 0
            /\ ret' = "process_json"
            /\ fov' = [NoCall EXCEPT !.first = found_overlay]
            /\ item' = [item EXCEPT !.kind = "plain", !.composer = "video"]
            /\ pc' = "fov_loop"
            /\ UNCHANGED <<output_path, clean>>
    /\ UNCHANGED <<sweep, n, i, fs, dirs, saved_path, nicetime, timestamp, pzLocals,
                   frLocals, outcome, mergedDirs, rmLog, crashedIn>>

\* line 339
PJ_PlainReturn ==
    /\ pc = "pj_plain_ret"
    /\ output_path' = out_vid
    /\ pc' = "pj_timestamp"
    /\ UNCHANGED <<sweep, n, i, fs, dirs, saved_path, nicetime, timestamp, pzLocals,
                   fovLocals, frLocals, fov, item, outcome, clean, mergedDirs,
                   rmLog, crashedIn>>

\* a handler that takes whatever the compositor had begun to write
PJ_ExceptKeepsOutput ==
    /\ pc = "pj_except"
    /\ output_path' = out_file
    /\ pc' = "pj_timestamp"
    /\ UNCHANGED <<sweep, n, i, fs, dirs, saved_path, nicetime, timestamp, pzLocals,
                   fovLocals, frLocals, fov, item, outcome, clean, mergedDirs,
                   rmLog, crashedIn>>

\* lines 343-345
PJ_Except ==
    /\ pc = "pj_except"
    /\ output_path' = saved_path
    /\ pc' = "pj_timestamp"
    /\ UNCHANGED <<sweep, n, i, fs, dirs, saved_path, nicetime, timestamp, pzLocals,
                   fovLocals, frLocals, fov, item, outcome, clean, mergedDirs,
                   rmLog, crashedIn>>

\* lines 349-351: an entry without "Date" gives None, and None has no replace
PJ_Timestamp ==
    /\ pc = "pj_timestamp"
    /\ \/ /\ timestamp' = TS1
          /\ nicetime' = NiceTime(TS1)
          /\ item' = Step("timestamp")
          /\ pc' = "pj_embed"
          /\ UNCHANGED <<clean, crashedIn>>
       \/ /\ Crash("process_json")
          /\ clean' = FALSE
          /\ UNCHANGED <<timestamp, nicetime, item>>
    /\ UNCHANGED <<sweep, n, i, fs, dirs, saved_path, output_path, pzLocals, fovLocals,
                   frLocals, fov, outcome, mergedDirs, rmLog>>

\* a condition that does not look at the location
WantsJpgAnyLocation(path, location) ==
    /\ path # None
    /\ EndsWith(Lower(path), S_jpg) \/ EndsWith(Lower(path), S_jpeg)

\* the conditions of lines 356 and 364, location standing for lat and lon not None
WantsJpg(path, location) ==
    /\ path # None
    /\ EndsWith(Lower(path), S_jpg) \/ EndsWith(Lower(path), S_jpeg)
    /\ location
WantsMp4(path, location) ==
    /\ path # None
    /\ EndsWith(Lower(path), S_mp4)
    /\ location

\* the content of a file that carries the embedded metadata
Tagged(c) ==
    CASE c = "merged" -> "merged+gps"
      [] c = "media"  -> "media+gps"
      [] OTHER        -> c

\* an embedder that fails while it writes the file in place
EmbedFailedInPlace(f, path, residue) == WriteFile(f, path, "partial")

\* the files after a failed embedder: embed_gps_jpg fails before
\* piexif.insert has written; embed_gps_mp4 writes to temp_path (line 121) and
\* replaces the original only at line 141, so a failure leaves the original and
\* possibly temp_path
EmbedFailed(f, path, residue) ==
    IF residue /\ EndsWith(Lower(path), S_mp4)
    THEN WriteFile(f, path \o <<".","t","m","p">> \o S_mp4, "tmp")
    ELSE f

\* the item after the embedding blocks read the entry's location
Seen(location_str, ll) ==
    [Step("embed") EXCEPT !.loc = location_str, !.lat = ll.lat, !.lon = ll.lon]

\* lines 84 and 86: the GPS tags of the JPG
GpsTags(lat, lon, below) ==
    << deg_to_dms_rational(lat, below), deg_to_dms_rational(lon, below) >>

\* both embedding blocks for an entry whose location parses to ll
EmbedWith(seen, wanted, jpg, ll) ==
    \/ /\ ~wanted
       /\ item' = [seen EXCEPT !.embed = "not invoked"]
       /\ UNCHANGED <<fs, clean>>
    \* piexif.insert, or os.replace of the remuxed copy, rewrites the file
    \/ /\ wanted
       /\ output_path \in DOMAIN fs
       /\ fs' = [fs EXCEPT ![output_path] = Tagged(@)]
       /\ \E below \in BOOLEAN :
             item' = [seen EXCEPT
                        !.embed = "ok",
                        !.gps = IF jpg /\ ll.ok
                                THEN GpsTags(ll.lat, ll.lon, below)
                                ELSE <<>>]
       /\ UNCHANGED clean
    \/ /\ wanted
       /\ \E residue \in BOOLEAN :
             fs' = EmbedFailed(fs, output_path, residue)
       /\ item' = [seen EXCEPT !.embed = "failed"]
       /\ clean' = FALSE

EmbedParsed(location_str, ll) ==
    EmbedWith(Seen(location_str, ll),
              WantsJpg(output_path, ll.ok) \/ WantsMp4(output_path, ll.ok),
              WantsJpg(output_path, ll.ok), ll)

\* lines 354-368 and 434-448: both embedding blocks; every exception of an
\* embedder is caught, here or in the embedder itself
Embed(next) ==
    /\ \E location_str \in Locations :
          EmbedParsed(location_str, parse_latlon(location_str))
    /\ pc' = next

PJ_Embed ==
    /\ pc = "pj_embed"
    /\ Embed("pj_rename")
    /\ UNCHANGED <<sweep, n, i, dirs, pjLocals, pzLocals, fovLocals, frLocals, fov,
                   outcome, mergedDirs, rmLog, crashedIn>>

\* lines 370-377; os.rename onto an existing name replaces it on POSIX and
\* raises FileExistsError on Windows
PJ_Rename ==
    /\ pc = "pj_rename"
    /\ IF output_path # None /\ nicetime # S_empty
       THEN LET new_path == NewPath(output_path, nicetime) IN
              \/ /\ output_path \in DOMAIN fs
                 /\ fs' = RenameFile(fs, output_path, new_path)
                 /\ output_path' = new_path
                 /\ item' = [Step("rename") EXCEPT
                                !.renamed = TRUE, !.from = output_path, !.to = new_path]
                 /\ EndItem(FALSE, new_path)
                 /\ pc' = "pj_loop"
                 /\ UNCHANGED <<clean, crashedIn>>
              \/ /\ output_path \notin DOMAIN fs \/ new_path \in DOMAIN fs
                 /\ Crash("process_json")
                 /\ clean' = FALSE
                 /\ UNCHANGED <<fs, output_path, item, i, outcome>>
       ELSE /\ EndItem(FALSE, None)
            /\ pc' = "pj_loop"
            /\ UNCHANGED <<fs, output_path, item, clean, crashedIn>>
    /\ UNCHANGED <<sweep, n, dirs, saved_path, nicetime, timestamp, pzLocals, fovLocals,
                   frLocals, fov, mergedDirs, rmLog>>

(***************************************************************************)
(* __main__, CheckOutputDir and FixRemaining                               *)
(***************************************************************************)
\* a sweep that reports a folder that is not there
CheckOutputDirPhantom(ds) == ds \cup {A_extracted}

\* lines 382-392: the *_extracted folders of outdir
CheckOutputDir(ds) == {d \in ds : PathParent(d) = OutDir /\ EndsWith(PathName(d), S_extracted)}

\* a sweep that ignores noDelete
DeletesAlways(no_delete) == TRUE

\* a sweep that never deletes
DeletesNever(no_delete) == FALSE

\* lines 453-454
DeletesScratch(no_delete) == ~no_delete

\* lines 476-478, and line 407 of the FixRemaining they call.  __main__ passes
\* noDelete=True; False is the parameter's default (line 406)
Main_Check ==
    /\ pc = "main_check"
    /\ IF CheckOutputDir(dirs) # {}
       THEN /\ remaining' = CheckOutputDir(dirs)
            /\ noDelete' \in BOOLEAN
            /\ sweep' = sweep + 1
            /\ pc' = "fr_loop"
       ELSE /\ pc' = "done"
            /\ UNCHANGED <<remaining, noDelete, sweep>>
    /\ item' = NoItem
    /\ saved_path' = None /\ output_path' = None /\ nicetime' = None
    /\ timestamp' = None /\ zip_path' = None /\ out_file' = None
    /\ extract_dir' = None /\ main' = None /\ overlay' = None
    /\ overlay_png' = None /\ out_vid' = None /\ ret' = "none"
    \* the record of the batch ends with process_json
    /\ outcome' = <<>> /\ clean' = TRUE
    /\ UNCHANGED <<n, i, fs, dirs, x, fov, mergedDirs, rmLog, crashedIn>>

\* FixRemaining is called again, with the same noDelete, after it returned
\* (lines 406-407)
FR_Again ==
    /\ pc = "done"
    /\ sweep >= 1 /\ sweep < MaxSweeps
    /\ sweep' = sweep + 1
    /\ remaining' = CheckOutputDir(dirs)
    /\ item' = NoItem
    /\ output_path' = None /\ timestamp' = None
    /\ extract_dir' = None /\ main' = None /\ overlay' = None
    /\ overlay_png' = None /\ out_vid' = None /\ ret' = "none"
    /\ pc' = "fr_loop"
    /\ UNCHANGED <<n, i, fs, dirs, saved_path, nicetime, zip_path, out_file, x,
                   noDelete, fov, outcome, clean, mergedDirs, rmLog, crashedIn>>

\* lines 408-413: the next leftover folder, in the order iterdir gave them
FR_Next ==
    /\ pc = "fr_loop"
    /\ \/ /\ remaining = {}
          /\ pc' = "done"
          /\ UNCHANGED <<remaining, extract_dir, main, overlay, item,
                         output_path, timestamp>>
       \/ \E subdir \in remaining :
             /\ remaining' = remaining \ {subdir}
             /\ extract_dir' = subdir
             /\ output_path' = None
             /\ timestamp' = None
             /\ \E pair \in find_main_and_overlay(fs, subdir) :
                   /\ main' = pair[1]
                   /\ overlay' = pair[2]
                   /\ IF pair[1] = None \/ pair[2] = None
                      THEN /\ item' = [NoItem EXCEPT !.kind = "leftover", !.missing = TRUE]
                           /\ pc' = "fr_loop"
                      ELSE /\ item' = [NoItem EXCEPT !.kind = "leftover"]
                           /\ pc' = "fr_compose"
    /\ UNCHANGED <<sweep, n, i, fs, dirs, saved_path, nicetime, zip_path, out_file,
                   fovLocals, noDelete, fov, outcome, clean, mergedDirs, rmLog,
                   crashedIn>>

\* line 416: the folder's name without the scratch suffix
StrippedName(subdir) == Replace(PathStem(subdir), S_extracted, S_empty)

\* lines 415-421: an image; overlay_image's exception is not caught
FR_ComposeImage ==
    /\ pc = "fr_compose"
    /\ Lower(PathSuffix(main)) \in ImageExts
    /\ LET out_img == BaseOut(OutDir, StrippedName(extract_dir)) \o S_jpg IN
         \/ /\ fs' = WriteFile(fs, out_img, "merged")
            /\ output_path' = out_img
            /\ mergedDirs' = mergedDirs \cup {extract_dir}
            /\ item' = [Step("compose") EXCEPT !.composer = "image", !.compose = "ok"]
            /\ pc' = "fr_find"
            /\ UNCHANGED crashedIn
         \/ /\ item' = [item EXCEPT !.composer = "image", !.compose = "raised"]
            /\ Crash("FixRemaining")
            /\ UNCHANGED <<fs, output_path, mergedDirs>>
    /\ UNCHANGED <<sweep, n, i, dirs, saved_path, nicetime, timestamp, pzLocals, fovLocals,
                   frLocals, fov, outcome, clean, rmLog>>

\* lines 423-425: taken for a video
FR_ComposeVideo ==
    /\ pc = "fr_compose"
    /\ Lower(PathSuffix(main)) \notin ImageExts
    /\ out_vid' = BaseOut(OutDir, StrippedName(extract_dir)) \o S_mp4
    /\ overlay_png' = overlay
    /\ x' = 0
    /\ ret' = "FixRemaining"
    /\ fov' = [NoCall EXCEPT !.first = overlay]
    /\ item' = [item EXCEPT !.composer = "video"]
    /\ pc' = "fov_loop"
    /\ UNCHANGED <<sweep, n, i, fs, dirs, pjLocals, pzLocals, frLocals, outcome, clean,
                   mergedDirs, rmLog, crashedIn>>

\* lines 426-427
FR_VideoReturn ==
    /\ pc = "fr_composed"
    /\ output_path' = out_vid
    /\ pc' = "fr_find"
    /\ UNCHANGED <<sweep, n, i, fs, dirs, saved_path, nicetime, timestamp, pzLocals,
                   fovLocals, frLocals, fov, item, outcome, clean, mergedDirs,
                   rmLog, crashedIn>>

\* lines 429-432 with FindInJSON (lines 394-404): the first entry one of whose
\* strings contains the stripped name, or None; entry.get on None raises
FR_Find ==
    /\ pc = "fr_find"
    /\ \/ /\ timestamp' \in {TS1, None}
          /\ item' = Step("timestamp")
          /\ pc' = "fr_embed"
          /\ UNCHANGED crashedIn
       \/ /\ Crash("FixRemaining")
          /\ UNCHANGED <<timestamp, item>>
    /\ UNCHANGED <<sweep, n, i, fs, dirs, saved_path, output_path, nicetime, pzLocals,
                   fovLocals, frLocals, fov, outcome, clean, mergedDirs, rmLog>>

\* lines 434-448
FR_Embed ==
    /\ pc = "fr_embed"
    /\ Embed("fr_delete")
    /\ UNCHANGED <<sweep, n, i, dirs, pjLocals, pzLocals, fovLocals, frLocals, fov,
                   outcome, mergedDirs, rmLog, crashedIn>>

\* lines 453-454
FR_Delete ==
    /\ pc = "fr_delete"
    /\ IF DeletesScratch(noDelete)
       THEN /\ fs' = RmTree(fs, extract_dir)
            /\ dirs' = dirs \ {extract_dir}
            /\ rmLog' = rmLog \cup {Removed(extract_dir, "FixRemaining:454")}
            /\ mergedDirs' = mergedDirs \ {extract_dir}
       ELSE UNCHANGED <<fs, dirs, rmLog, mergedDirs>>
    /\ pc' = "fr_loop"
    /\ UNCHANGED <<sweep, n, i, pjLocals, pzLocals, fovLocals, frLocals, fov, item,
                   outcome, clean, crashedIn>>

Next ==
    \/ PJ_NextEntry \/ PJ_Download \/ PZ_Prepare \/ PZ_Extract \/ PZ_Locate
    \/ PZ_ComposeImage \/ PZ_ComposeVideo \/ PZ_Cleanup
    \/ FOV_Attempt \/ FOV_Fix \/ FOV_Return
    \/ PJ_Plain \/ PJ_PlainReturn \/ PJ_Except \/ PJ_Timestamp \/ PJ_Embed
    \/ PJ_Rename
    \/ Main_Check \/ FR_Next \/ FR_ComposeImage \/ FR_ComposeVideo
    \/ FR_VideoReturn \/ FR_Find \/ FR_Embed \/ FR_Delete \/ FR_Again

Spec == Init /\ [][Next]_vars

\* the runs in which no stage but a download fails and every entry has its
\* URL and its date
NextWellFormed == Next /\ clean'

SpecWellFormed == InitWith(WellFormedEntries) /\ [][NextWellFormed]_vars

(***************************************************************************)
(* Lines 349-351 and 370-377 of process_json over a range of capture times *)
(***************************************************************************)
Years   == {<<"2","0","2","1">>, <<"1","9","9","9">>}
Months  == {<<"1","0">>, <<"0","1">>}
Days    == {<<"0","6">>, <<"3","1">>}
Hours   == {<<"2","3">>, <<"0","0">>}
Minutes == {<<"0","9">>, <<"5","9">>}
Seconds == {<<"2","1">>, <<"0","0">>}

\* the "Date" values of the export: YYYY-MM-DD HH:MM:SS UTC
Dates ==
    { y \o S_hyphen \o mo \o S_hyphen \o d \o S_space \o
      h \o S_colon \o mi \o S_colon \o sec \o S_UTC :
        y \in Years, mo \in Months, d \in Days,
        h \in Hours, mi \in Minutes, sec \in Seconds }

\* the outputs an item can reach the rename with
Outputs ==
    { Join(OutDir, <<"a",".","j","p","g">>),
      Join(OutDir, <<"a">> \o S_merged \o S_mp4) }

InitNormalize ==
    /\ pc = "n_timestamp"
    /\ n = 1 /\ i = 1
    /\ output_path \in Outputs
    /\ saved_path = output_path
    /\ fs = [q \in {output_path} |-> "media"]
    /\ dirs = {}
    /\ timestamp \in Dates
    /\ nicetime = None
    /\ zip_path = None /\ out_file = None /\ extract_dir = None /\ main = None /\ overlay = None
    /\ overlay_png = None /\ out_vid = None /\ x = 0 /\ ret = "none"
    /\ remaining = {} /\ noDelete = FALSE /\ sweep = 0
    /\ fov = NoCall /\ item = NoItem /\ outcome = <<>> /\ clean = TRUE
    /\ mergedDirs = {} /\ rmLog = {} /\ crashedIn = "none"

\* line 351
N_Timestamp ==
    /\ pc = "n_timestamp"
    /\ nicetime' = NiceTime(timestamp)
    /\ pc' = "n_rename"
    /\ UNCHANGED <<sweep, n, i, fs, dirs, saved_path, output_path, timestamp, pzLocals,
                   fovLocals, frLocals, fov, item, outcome, clean, mergedDirs,
                   rmLog, crashedIn>>

\* lines 371-377
N_Rename ==
    /\ pc = "n_rename"
    /\ output_path # None /\ nicetime # S_empty
    /\ LET new_path == NewPath(output_path, nicetime) IN
         /\ fs' = RenameFile(fs, output_path, new_path)
         /\ output_path' = new_path
    /\ pc' = "n_done"
    /\ UNCHANGED <<sweep, n, i, dirs, saved_path, nicetime, timestamp, pzLocals,
                   fovLocals, frLocals, fov, item, outcome, clean, mergedDirs,
                   rmLog, crashedIn>>

NextNormalize == N_Timestamp \/ N_Rename

SpecNormalize == InitNormalize /\ [][NextNormalize]_vars

(***************************************************************************)
(* Lines 84 and 86 of embed_gps_jpg over a range of coordinates            *)
(***************************************************************************)
\* latitudes and longitudes, in millionths of a degree
Latitudes ==
    {0, 1, 2, 3, 500000, 2550000, 51520000, -120000, -33868820, 89999999,
     -90000000, 45123457}
Longitudes ==
    {0, -1, 2, 120003, -2550000, 151209296, -179999999, 180000000, -74005974,
     13404954, 999999, -60000000}

InitDms ==
    /\ pc = "dms"
    /\ n = 1 /\ i = 1
    /\ \E lat \in Latitudes, lon \in Longitudes :
          item = [NoItem EXCEPT !.lat = lat, !.lon = lon]
    /\ fs = NoFiles /\ dirs = {}
    /\ saved_path = None /\ output_path = None /\ nicetime = None /\ timestamp = None
    /\ zip_path = None /\ out_file = None /\ extract_dir = None /\ main = None /\ overlay = None
    /\ overlay_png = None /\ out_vid = None /\ x = 0 /\ ret = "none"
    /\ remaining = {} /\ noDelete = FALSE /\ sweep = 0
    /\ fov = NoCall /\ outcome = <<>> /\ clean = TRUE
    /\ mergedDirs = {} /\ rmLog = {} /\ crashedIn = "none"

\* lines 84 and 86
DMS_Tags ==
    /\ pc = "dms"
    /\ \E below \in BOOLEAN :
          item' = [item EXCEPT !.gps = GpsTags(item.lat, item.lon, below)]
    /\ pc' = "dms_done"
    /\ UNCHANGED <<sweep, n, i, fs, dirs, pjLocals, pzLocals, fovLocals, frLocals, fov,
                   outcome, clean, mergedDirs, rmLog, crashedIn>>

NextDms == DMS_Tags

SpecDms == InitDms /\ [][NextDms]_vars

(***************************************************************************)
(* Properties                                                              *)
(***************************************************************************)
\* line 373: the name starts with the normalized timestamp and an underscore
HasTimestampPrefix(p) == StartsWith(PathName(p), NiceTime(TS1) \o S_underscore)

Archives == {"zip", "badzip"}

\* a merged output, with or without embedded metadata
Merged == {"merged", "merged+gps"}

\* a downloaded media file, with or without embedded metadata
Media == {"media", "media+gps"}

\* C1: when the compose step fails on every attempt, ffmpeg_overlay_video makes
\* exactly AllowedAttemps (3) attempts and stops: no call ever makes a fourth
\* attempt after three failures.
C1_StopsAfterThreeAttempts == ~fov.ok => fov.attempts <= AllowedAttemps

\* C2: when ffmpeg_overlay_video leaves its loop after a successful attempt,
\* out_vid holds a complete merged video, FixOverlayImage has been invoked once
\* per failed attempt (twice when the third attempt succeeds), the first
\* attempt used the overlay the caller passed, and every retry used the path
\* the preceding repair returned.
C2_RetriesUseRepairedOverlay ==
    (pc = "fov_done" /\ fov.ok) =>
        /\ out_vid \in DOMAIN fs /\ fs[out_vid] = "merged"
        /\ fov.repairs = fov.attempts - 1
        /\ Len(fov.used) = fov.attempts /\ Len(fov.fixed) = fov.repairs
        /\ fov.used[1] = fov.first
        /\ \A k \in 1..fov.repairs :
              /\ fov.used[k + 1] = fov.fixed[k]
              /\ fov.fixed[k] = FixedOverlayPath(fov.used[k])

\* the third attempt succeeded after two failures and two repairs, and the
\* retries ran on files other than the original overlay
C2_Witness ==
    /\ pc = "fov_done" /\ fov.ok
    /\ fov.attempts = 3 /\ fov.repairs = 2
    /\ fov.used[2] # fov.first /\ fov.used[3] # fov.used[2]

\* C3: no failure of a stage of one entry (download, extraction, locate,
\* compose, timestamp normalization, metadata embedding, rename) leaves
\* process_json: the batch loop never ends early.
C3_BatchNeverAborts == crashedIn # "process_json"

\* C4: in a run over well-formed entries in which nothing but downloads fails,
\* process_json is never left by an exception, a failing download changes no
\* file and moves on to the next entry, every entry whose download threw has
\* no output, and every other processed entry has its final file on disk under
\* a timestamp-prefixed name.
C4_DownloadFailureIsolated ==
    /\ [](/\ crashedIn # "process_json"
          /\ \A j \in 1..Len(outcome) :
                IF outcome[j].threw
                THEN outcome[j].final = None
                ELSE /\ outcome[j].final \in DOMAIN fs
                     /\ HasTimestampPrefix(outcome[j].final))
    /\ [][(pc = "pj_download" /\ pc' # "pj_process") =>
             /\ pc' = "pj_loop" /\ i' = i + 1
             /\ fs' = fs /\ dirs' = dirs
             /\ Len(outcome') = Len(outcome) + 1
             /\ outcome'[Len(outcome')].threw]_vars

\* three entries, only the second download threw, process_json has returned
C4_Witness ==
    /\ pc = "main_check" /\ n = 3 /\ Len(outcome) = 3
    /\ ~outcome[1].threw /\ outcome[2].threw /\ ~outcome[3].threw
    /\ outcome[1].final # outcome[3].final
    /\ {outcome[1].final, outcome[3].final} \subseteq DOMAIN fs

\* C5 as stated: a scratch directory is deleted only if the merge of its
\* content succeeded or a sweep configured to delete processed it.
C5_DeletedOnlyAfterMerge ==
    \A r \in rmLog : r.merged \/ (r.site = "FixRemaining:454" /\ ~r.noDelete)

\* C5: a scratch directory is deleted at three places only: by
\* process_zip_file when it extracts an archive of the same stem again
\* (whatever the directory held), by process_zip_file after its merge
\* succeeded, and by a FixRemaining called without noDelete after it merged the
\* directory; once process_zip_file has returned from a successful merge its
\* scratch directory is gone.
C5_ScratchLifecycle ==
    /\ \A r \in rmLog :
          \/ r.site = "process_zip_file:231"
          \/ r.site = "process_zip_file:250" /\ r.merged
          \/ r.site = "FixRemaining:454" /\ r.merged /\ ~r.noDelete
    /\ (item.kind = "zip" /\ item.compose = "ok" /\ pc # "pz_cleanup") =>
          extract_dir \notin dirs

\* process_zip_file has deleted a leftover directory nothing had merged
C5_Witness ==
    \E r \in rmLog : r.site = "process_zip_file:231" /\ ~r.merged

C7_NoArchiveRemains ==
    pc = "pj_loop" => \A p \in DOMAIN fs : fs[p] \notin Archives

\* C7: process_zip_file deletes the archive exactly when extract_zip returned,
\* before it looks at what was extracted; when extract_zip raised the archive
\* stays on disk, under its own name or, after the rename, under the prefixed
\* one.
C7_ArchiveDeletedIffExtracted ==
    item.kind = "zip" =>
        /\ (item.extract = "ok" /\ pc # "pz_locate") => zip_path \notin DOMAIN fs
        /\ item.extract = "raised" =>
              IF item.renamed
              THEN item.from = zip_path /\ item.to \in DOMAIN fs
                   /\ fs[item.to] \in Archives
              ELSE zip_path \in DOMAIN fs /\ fs[zip_path] \in Archives

\* extract_zip raised, the item is over and the archive is still on disk
C7_Witness ==
    /\ pc = "pj_loop" /\ item.kind = "zip" /\ item.extract = "raised"
    /\ zip_path \notin DOMAIN fs
    /\ item.renamed /\ fs[item.to] \in Archives

\* C8: when the extracted archive lacks a main or an overlay payload, no
\* compositor is invoked, no merged output is created, no metadata is embedded,
\* no file is renamed, and the batch goes on.
C8_MissingPayloadSkipsItem ==
    (item.kind = "zip" /\ item.missing) =>
        /\ item.composer = "none" /\ item.compose = "none"
        /\ out_file = None /\ output_path = None
        /\ item.embed \in {"none", "not invoked"}
        /\ ~item.renamed
        /\ crashedIn # "process_json"

\* C9: when the program has finished, every merged output on disk, composed by
\* process_json or by FixRemaining, has the timestamp prefix.
C9_MergedOutputsPrefixed ==
    pc = "done" =>
        \A p \in DOMAIN fs : fs[p] \in Merged => HasTimestampPrefix(p)

\* C10: FixOverlayImage saves to a path other than its input and the input
\* still holds what it held.
C10_RepairWritesNewFile ==
    fov.fix.done =>
        /\ fov.fix.out # fov.fix.inp
        /\ fov.fix.inp \in DOMAIN fs
        /\ fs[fov.fix.inp] = fov.fix.before

\* C11: a downloaded file that is no archive and has a companion overlay is
\* composed into <stem>_merged.jpg (image extensions) or <stem>_merged.mp4
\* (otherwise) and that file is the item's output; without a companion the
\* downloaded file itself is the output, unchanged.
C11_NonArchiveOutput ==
    (pc = "pj_timestamp" /\ item.kind = "plain") =>
        LET found  == FoundOverlay(fs, saved_path)
            merged == Join(OutDir, PathStem(saved_path) \o S_merged)
        IN  IF found = None
            THEN output_path = saved_path /\ fs[saved_path] = "media"
            ELSE IF Lower(PathSuffix(saved_path)) \in ImageExts
                 THEN /\ output_path = merged \o S_jpg
                      /\ output_path \in DOMAIN fs
                 ELSE item.compose = "ok" =>
                         /\ output_path = merged \o S_mp4
                         /\ output_path \in DOMAIN fs

\* C19: at the embedding and rename stage of process_json a non-empty
\* output_path names a file that exists; the path of an archive that
\* process_zip_file deleted is never the item's output.
C19_OutputPathExists ==
    (pc \in {"pj_embed", "pj_rename"} /\ output_path # None) =>
        output_path \in DOMAIN fs

\* C20: a leftover directory whose merged output has no matching manifest
\* entry does not stop the sweep: FixRemaining is never left by an exception
\* after a successful compose.
C20_NoMatchDoesNotStopSweep ==
    ~(crashedIn = "FixRemaining" /\ item.compose = "ok")

\* the program is inside FixRemaining
InSweep ==
    \/ pc \in {"fr_loop", "fr_compose", "fr_composed", "fr_find", "fr_embed",
               "fr_delete"}
    \/ pc \in {"fov_loop", "fov_fix", "fov_done"} /\ ret = "FixRemaining"

\* C14: a sweep run with noDelete deletes no scratch directory; a sweep run
\* with the default deletes, at the end of each folder's iteration, the folder
\* whose compose and embed steps completed; a folder skipped for a missing main
\* or overlay is left in place.
C14_SweepDeletionPolicy ==
    [][/\ (InSweep /\ noDelete) => (dirs' = dirs)
       /\ pc = "fr_delete" =>
             IF noDelete
             THEN dirs' = dirs /\ fs' = fs
             ELSE /\ dirs' = dirs \ {extract_dir}
                  /\ \A q \in DOMAIN fs' : ~StartsWith(q, extract_dir \o <<"/">>)
       /\ pc = "fr_loop" => (dirs' = dirs /\ fs' = fs)]_vars

\* a default sweep is over: it deleted the folder it merged and left the one
\* it skipped
C14_Witness ==
    /\ pc = "done" /\ ~noDelete
    /\ \E r \in rmLog : r.site = "FixRemaining:454"
    /\ dirs # {}

\* C15: in process_zip_file and FixRemaining the image compositor is invoked
\* exactly when the main payload's lowered extension is .jpg, .jpeg, .png or
\* .webp and the video compositor otherwise; a merged item was composed once,
\* into a path ending in _merged.jpg for the image compositor and _merged.mp4
\* for the video compositor.
C15_CompositorSelection ==
    (item.kind \in {"zip", "leftover"} /\ item.composer # "none") =>
        LET image == Lower(PathSuffix(main)) \in {S_jpg, S_jpeg, S_png, S_webp}
            out   == IF item.composer = "video" THEN out_vid
                     ELSE IF item.kind = "zip" THEN out_file ELSE output_path
        IN  /\ item.composer = (IF image THEN "image" ELSE "video")
            /\ item.compose = "ok" =>
                  /\ Cardinality({k \in 1..Len(item.steps) : item.steps[k] = "compose"}) = 1
                  /\ EndsWith(out, S_merged \o (IF image THEN S_jpg ELSE S_mp4))

\* an archive with an image payload has been merged by the image compositor
C15_Witness ==
    /\ pc = "pz_cleanup" /\ item.composer = "image" /\ item.compose = "ok"
    /\ out_file \in DOMAIN fs

\* the prefix read off the positions of YYYY-MM-DD HH:MM:SS UTC
ExpectedPrefix(ts) ==
    SubSeq(ts, 1, 10) \o <<"_">> \o SubSeq(ts, 12, 13) \o <<"-">> \o
    SubSeq(ts, 15, 16) \o <<"-">> \o SubSeq(ts, 18, 19)

\* C17: for a capture time YYYY-MM-DD HH:MM:SS UTC the prefix is
\* YYYY-MM-DD_HH-MM-SS, and the renamed file is <prefix>_<name> in the
\* directory of the output it was, which is gone.
C17_FilenameNormalization ==
    /\ pc \in {"n_rename", "n_done"} =>
          /\ nicetime = ExpectedPrefix(timestamp)
          /\ Len(nicetime) = 19
          /\ \A k \in 1..19 : nicetime[k] \notin {":", " "}
    /\ pc = "n_done" =>
          /\ output_path =
                Join(OutDir, ExpectedPrefix(timestamp) \o <<"_">> \o PathName(saved_path))
          /\ DOMAIN fs = {output_path}

\* the capture time of the export's example has been normalized and used
C17_Witness ==
    /\ pc = "n_done" /\ timestamp = TS1
    /\ nicetime = <<"2","0","2","1","-","1","0","-","0","6","_",
                    "2","3","-","0","9","-","2","1">>
    /\ output_path \in DOMAIN fs

\* C12: a failure while embedding metadata is caught: every file, the output
\* among them, is still there with the content it had (a failed remux leaves at
\* most its temporary file beside the original), and the item goes on to its
\* next step.
C12_EmbedFailureKeepsOutput ==
    [][(pc \in {"pj_embed", "fr_embed"} /\ item'.embed = "failed") =>
          /\ output_path \in DOMAIN fs
          /\ \A q \in DOMAIN fs : q \in DOMAIN fs' /\ fs'[q] = fs[q]
          /\ pc' = (IF pc = "pj_embed" THEN "pj_rename" ELSE "fr_delete")
          /\ crashedIn' = crashedIn]_vars

\* the remux of a video failed and left its temporary file; the video is as it
\* was and the item is at the rename
C12_Witness ==
    /\ pc = "pj_rename" /\ item.embed = "failed"
    /\ EndsWith(output_path, S_mp4)
    /\ (output_path \o <<".","t","m","p">> \o S_mp4) \in DOMAIN fs
    /\ fs[output_path] \in {"merged", "media"}

\* the locations parse_latlon finds no coordinates in
Unparsable == {S_empty, L_integers}

\* C13: for an entry whose location is absent or has no parsable coordinates,
\* the embedding blocks of process_json and FixRemaining invoke no embedder and
\* change no file.
C13_NoLocationNoEmbedding ==
    [][(pc \in {"pj_embed", "fr_embed"} /\ item'.loc \in Unparsable) =>
          /\ item'.embed = "not invoked"
          /\ fs' = fs]_vars

\* a JPG output went through the embedding blocks of an entry whose location
\* has no decimals
C13_Witness ==
    /\ pc = "pj_rename" /\ item.loc = L_integers
    /\ EndsWith(output_path, S_jpg) /\ output_path \in DOMAIN fs
    /\ item.embed = "not invoked"

\* deg + minutes/60 + (seconds/100)/3600 less |d|, in units of 1/9000000
\* degree (d in millionths, t the tuple returned for it): 1/720000 degree is
\* 12.5 units
DmsError(d, t) ==
    25 * (t[1][1] * 360000 + t[2][1] * 6000 + t[3][1]) - 9 * Abs(d)

DmsWithinBound(d, t) ==
    /\ t[1][2] = 1 /\ t[2][2] = 1 /\ t[3][2] = 100
    /\ t[1][1] >= 0 /\ t[2][1] >= 0 /\ t[3][1] >= 0
    /\ 2 * DmsError(d, t) <= 25
    /\ 2 * DmsError(d, t) >= -25

\* C18: for every coordinate d of the input sets, the degrees, minutes and
\* hundredths of seconds deg_to_dms_rational returns add up to |d| within
\* 1/720000 degree.
C18_DmsRoundTrip ==
    pc = "dms_done" =>
        /\ DmsWithinBound(item.lat, item.gps[1])
        /\ DmsWithinBound(item.lon, item.gps[2])

\* 33.868820 degrees south and 151.209296 degrees east have been converted
C18_Witness ==
    /\ pc = "dms_done" /\ item.lat = -33868820 /\ item.lon = 151209296
    /\ item.gps[1] = << <<33, 1>>, <<52, 1>>, <<775, 100>> >>
    /\ item.gps[2] = << <<151, 1>>, <<12, 1>>, <<3347, 100>> >>

\* C16: when no scratch directory is left after a sweep, a second call of
\* FixRemaining finds zero leftovers and returns at once: it invokes no
\* compositor and no embedder and changes no file.
C16_SecondSweepIsNoOp ==
    [][/\ (pc = "done" /\ pc' = "fr_loop" /\ dirs = {}) =>
             /\ remaining' = {}
             /\ item' = NoItem /\ fov' = NoCall
             /\ fs' = fs /\ dirs' = dirs
       /\ (pc = "fr_loop" /\ sweep >= 2 /\ item = NoItem /\ remaining = {}
           /\ dirs = {}) =>
             /\ pc' = "done"
             /\ item' = NoItem /\ fov' = NoCall
             /\ fs' = fs /\ dirs' = dirs]_vars

\* the first sweep deleted what it merged, the second found nothing and is over
C16_Witness ==
    /\ pc = "done" /\ sweep = 2 /\ dirs = {} /\ item = NoItem
    /\ \E r \in rmLog : r.site = "FixRemaining:454"

====
